---- MODULE Spec2Model ----
(***************************************************************************)
(* Model of the Keyence IV camera calculator.                              *)
(*                                                                         *)
(*   src/main.py  calculate_resolution_metrics, linear_interpolation, the  *)
(*                camera catalog, and the Streamlit script with its        *)
(*                session state and on_change callbacks                    *)
(*   src/i.py     calculate_resolution, calculate_mounting_distance,       *)
(*                calculate_fov_from_distance, calculate_fov_x_y and the   *)
(*                Streamlit script of the earlier variant                  *)
(*                                                                         *)
(* Numbers are exact rationals <<numerator, denominator>> in lowest terms  *)
(* with a positive denominator.  Python's "/" is true division, so a       *)
(* quotient of two ints is a fraction, and a division by zero raises       *)
(* ZeroDivisionError, which is a value of the model (the pair <<0, 0>>)    *)
(* that every later operation propagates.  The rounding of binary floating *)
(* point is not modelled: the inputs of the program are Python ints (the   *)
(* catalog entries and the values of integer number_input widgets).        *)
(***************************************************************************)
EXTENDS Integers, Sequences, FiniteSets, TLC

(***************************************************************************)
(* Exact arithmetic                                                        *)
(***************************************************************************)
Abs(n) == IF n < 0 THEN -n ELSE n

RECURSIVE GCD(_, _)
GCD(a, b) == IF b = 0 THEN a ELSE GCD(b, a % b)

\* the fraction n/d (d # 0) in lowest terms with a positive denominator
Norm(n, d) ==
    LET g == GCD(Abs(n), Abs(d))
        s == IF d < 0 THEN -1 ELSE 1
    IN  <<(s * n) \div g, (s * d) \div g>>

\* a Python int as a number of the model
Q(i) == <<i, 1>>

\* the outcome of an expression that raised ZeroDivisionError
ZeroDivisionError == <<0, 0>>

\* the value None: nothing computed or displayed
None == <<1, 0>>

IsNumber(x) == x[2] > 0

Raised(x) == x = ZeroDivisionError

\* x + y
Add(x, y) ==
    IF ~IsNumber(x) \/ ~IsNumber(y) THEN ZeroDivisionError
    ELSE LET g == GCD(x[2], y[2])
         IN  Norm(x[1] * (y[2] \div g) + y[1] * (x[2] \div g), (x[2] \div g) * y[2])

\* -x
Neg(x) == IF ~IsNumber(x) THEN ZeroDivisionError ELSE <<-x[1], x[2]>>

\* x - y
Sub(x, y) == Add(x, Neg(y))

\* x * y
Mul(x, y) ==
    IF ~IsNumber(x) \/ ~IsNumber(y) THEN ZeroDivisionError
    ELSE LET g1 == GCD(Abs(x[1]), y[2])
             g2 == GCD(Abs(y[1]), x[2])
         IN  Norm((x[1] \div g1) * (y[1] \div g2), (x[2] \div g2) * (y[2] \div g1))

\* x / y, Python's true division: a zero divisor raises
Div(x, y) ==
    IF ~IsNumber(x) \/ ~IsNumber(y) THEN ZeroDivisionError
    ELSE IF y[1] = 0 THEN ZeroDivisionError
    ELSE Mul(x, Norm(y[2], y[1]))

\* x < y and x <= y on numbers
Less(x, y) == Sub(x, y)[1] < 0

Leq(x, y) == Sub(x, y)[1] <= 0

\* Python's min(x, y) and max(x, y): the first argument wins a tie
Min(x, y) == IF Less(y, x) THEN y ELSE x

Max(x, y) == IF Less(x, y) THEN y ELSE x

(***************************************************************************)
(* src/main.py: the calculation functions                                  *)
(***************************************************************************)
\* the function without its two guards, as i.py:6-10 computes it
calculate_resolution_metrics_unguarded(fov_mm, pixel_dimension) ==
    LET resolution_mm_per_pixel == Div(fov_mm, pixel_dimension)
    IN  <<resolution_mm_per_pixel, Div(Q(1), resolution_mm_per_pixel)>>

\* main.py:11-17
calculate_resolution_metrics(fov_mm, pixel_dimension) ==
    IF pixel_dimension = Q(0) THEN <<Q(0), Q(0)>>
    ELSE LET resolution_mm_per_pixel == Div(fov_mm, pixel_dimension)
             resolution_pixels_per_mm ==
                 IF resolution_mm_per_pixel # Q(0)
                 THEN Div(Q(1), resolution_mm_per_pixel)
                 ELSE Q(0)
         IN  <<resolution_mm_per_pixel, resolution_pixels_per_mm>>

\* the clamp without its upper bound
clamp_value_lower_only(value, min_val_in, max_val_in) ==
    Max(min_val_in, value)

\* main.py:25, the clamp of the input value
clamp_value(value, min_val_in, max_val_in) ==
    Max(min_val_in, Min(max_val_in, value))

\* the interpolation without the division by the input range
linear_interpolation_unscaled(value, min_val_in, max_val_in, min_val_out, max_val_out) ==
    IF Sub(max_val_in, min_val_in) = Q(0) THEN min_val_out
    ELSE Add(min_val_out,
             Mul(Sub(clamp_value(value, min_val_in, max_val_in), min_val_in),
                 Sub(max_val_out, min_val_out)))

\* the interpolation without the test for an empty input range
linear_interpolation_unguarded(value, min_val_in, max_val_in, min_val_out, max_val_out) ==
    Add(min_val_out,
        Div(Mul(Sub(clamp_value(value, min_val_in, max_val_in), min_val_in),
                Sub(max_val_out, min_val_out)),
            Sub(max_val_in, min_val_in)))

\* the interpolation offset by the start of the input range
linear_interpolation_offset_in(value, min_val_in, max_val_in, min_val_out, max_val_out) ==
    IF Sub(max_val_in, min_val_in) = Q(0) THEN min_val_out
    ELSE Add(min_val_in,
             Div(Mul(Sub(clamp_value(value, min_val_in, max_val_in), min_val_in),
                     Sub(max_val_out, min_val_out)),
                 Sub(max_val_in, min_val_in)))

\* the interpolation with the output range subtracted the wrong way round
linear_interpolation_descending(value, min_val_in, max_val_in, min_val_out, max_val_out) ==
    IF Sub(max_val_in, min_val_in) = Q(0) THEN min_val_out
    ELSE Add(min_val_out,
             Div(Mul(Sub(clamp_value(value, min_val_in, max_val_in), min_val_in),
                     Sub(min_val_out, max_val_out)),
                 Sub(max_val_in, min_val_in)))

\* main.py:19-28
linear_interpolation(value, min_val_in, max_val_in, min_val_out, max_val_out) ==
    IF Sub(max_val_in, min_val_in) = Q(0) THEN min_val_out
    ELSE LET clamped == clamp_value(value, min_val_in, max_val_in)
         IN  Add(min_val_out,
                 Div(Mul(Sub(clamped, min_val_in), Sub(max_val_out, min_val_out)),
                     Sub(max_val_in, min_val_in)))

\* main.py:153-166 and 242-249, the format specs .2f and .4f: x rounded to
\* `digits` decimals (ties to even), as the scaled integer x * 10^digits
format_f(x, digits) ==
    LET scale == IF digits = 2 THEN 100 ELSE 10000
        n == x[1] * scale
        q == n \div x[2]
        r == n % x[2]
    IN  IF 2 * r > x[2] THEN q + 1
        ELSE IF 2 * r < x[2] THEN q
        ELSE IF q % 2 = 0 THEN q ELSE q + 1

(***************************************************************************)
(* src/main.py: the catalog and the script                                 *)
(***************************************************************************)
\* main.py:32-86 (the image and the specification table are display only)
get_camera_data ==
    [ c \in {"IV3-G500CA", "IV3-G600MA"} |->
        IF c = "IV3-G500CA"
        THEN [ min_fov_x |-> Q(22), max_fov_x |-> Q(1184),
               min_fov_y |-> Q(16), max_fov_y |-> Q(888),
               min_dist |-> Q(50), max_dist |-> Q(3000),
               resolution_h |-> Q(1280), resolution_v |-> Q(960) ]
        ELSE [ min_fov_x |-> Q(51), max_fov_x |-> Q(2730),
               min_fov_y |-> Q(38), max_fov_y |-> Q(2044),
               min_dist |-> Q(50), max_dist |-> Q(3000),
               resolution_h |-> Q(1280), resolution_v |-> Q(960) ] ]

\* main.py:113
cameras == get_camera_data

\* main.py:114, the options of the selectbox; the first one is the default
CameraModels == DOMAIN cameras

\* main.py:119-122
pixel_aspect_ratio(camera) ==
    IF camera.resolution_v # Q(0)
    THEN Div(camera.resolution_h, camera.resolution_v)
    ELSE Q(1)

\* main.py:140
current_distance_clamped(camera, distance) ==
    Max(camera.min_dist, Min(camera.max_dist, distance))

\* a slip in the call: the FOV bounds passed as the input range
fov_x_at_dist_swapped(camera, distance) ==
    linear_interpolation(current_distance_clamped(camera, distance),
                         camera.min_fov_x, camera.max_fov_x,
                         camera.min_dist, camera.max_dist)

\* main.py:143-146
compute_fov_x_at_dist(camera, distance) ==
    linear_interpolation(current_distance_clamped(camera, distance),
                         camera.min_dist, camera.max_dist,
                         camera.min_fov_x, camera.max_fov_x)

\* main.py:147-150
compute_fov_y_at_dist(camera, distance) ==
    linear_interpolation(current_distance_clamped(camera, distance),
                         camera.min_dist, camera.max_dist,
                         camera.min_fov_y, camera.max_fov_y)

\* st.session_state: a dictionary, key |-> number, that lives across reruns
HasKey(state, key) == key \in DOMAIN state

SetKey(state, key, v) == (key :> v) @@ state

\* main.py:179-182
init_session_state(state, camera) ==
    LET s1 == IF ~HasKey(state, "target_fov_h_input")
              THEN SetKey(state, "target_fov_h_input", camera.min_fov_x)
              ELSE state
    IN  IF ~HasKey(s1, "target_fov_y_input")
        THEN SetKey(s1, "target_fov_y_input", camera.min_fov_y)
        ELSE s1

\* the callback without the clamp of the derived field
update_vertical_unclamped(state, camera) ==
    SetKey(state, "target_fov_y_input",
           Div(state["target_fov_h_input"], pixel_aspect_ratio(camera)))

\* main.py:185-191
update_vertical_from_horizontal(state, camera) ==
    IF HasKey(state, "target_fov_h_input")
    THEN LET new_h == state["target_fov_h_input"]
             new_y == Div(new_h, pixel_aspect_ratio(camera))
         IN  SetKey(state, "target_fov_y_input",
                    Max(camera.min_fov_y, Min(camera.max_fov_y, new_y)))
    ELSE state

\* main.py:194-200
update_horizontal_from_vertical(state, camera) ==
    IF HasKey(state, "target_fov_y_input")
    THEN LET new_y == state["target_fov_y_input"]
             new_h == Mul(new_y, pixel_aspect_ratio(camera))
         IN  SetKey(state, "target_fov_h_input",
                    Max(camera.min_fov_x, Min(camera.max_fov_x, new_h)))
    ELSE state

\* main.py:238-241
compute_estimated_distance_h(state, camera) ==
    linear_interpolation(state["target_fov_h_input"],
                         camera.min_fov_x, camera.max_fov_x,
                         camera.min_dist, camera.max_dist)

\* main.py:245-248
compute_estimated_distance_y(state, camera) ==
    linear_interpolation(state["target_fov_y_input"],
                         camera.min_fov_y, camera.max_fov_y,
                         camera.min_dist, camera.max_dist)

(***************************************************************************)
(* src/i.py: the calculation functions and the catalog                     *)
(***************************************************************************)
\* i.py:6-10; an exception leaves no result at all
calculate_resolution(fov_h, image_width) ==
    LET resolution_mm_per_pixel == Div(fov_h, image_width)
        resolution_pixels_per_mm == Div(Q(1), resolution_mm_per_pixel)
    IN  IF Raised(resolution_mm_per_pixel) \/ Raised(resolution_pixels_per_mm)
        THEN <<ZeroDivisionError, ZeroDivisionError>>
        ELSE <<resolution_mm_per_pixel, resolution_pixels_per_mm>>

\* the slope applied the wrong way round
calculate_mounting_distance_times_slope(target_fov, min_fov, max_fov, min_dist, max_dist) ==
    LET slope == Div(Sub(max_fov, min_fov), Sub(max_dist, min_dist))
    IN  Add(Mul(Sub(target_fov, min_fov), slope), min_dist)

\* i.py:12-16
calculate_mounting_distance(target_fov, min_fov, max_fov, min_dist, max_dist) ==
    LET slope == Div(Sub(max_fov, min_fov), Sub(max_dist, min_dist))
        distance == Add(Div(Sub(target_fov, min_fov), slope), min_dist)
    IN  distance

\* i.py:18-22
calculate_fov_from_distance(distance, min_fov, max_fov, min_dist, max_dist) ==
    LET slope == Div(Sub(max_fov, min_fov), Sub(max_dist, min_dist))
        fov == Add(Mul(Sub(distance, min_dist), slope), min_fov)
    IN  fov

\* i.py:24-32
calculate_fov_x_y(distance, min_fov_x, max_fov_x, min_fov_y, max_fov_y, min_dist, max_dist) ==
    LET slope_x == Div(Sub(max_fov_x, min_fov_x), Sub(max_dist, min_dist))
        slope_y == Div(Sub(max_fov_y, min_fov_y), Sub(max_dist, min_dist))
        fov_x == Add(Mul(Sub(distance, min_dist), slope_x), min_fov_x)
        fov_y == Add(Mul(Sub(distance, min_dist), slope_y), min_fov_y)
    IN  <<fov_x, fov_y>>

\* i.py:35-65 (the image and the specification table are display only)
i_cameras ==
    [ c \in {"IV3-G500CA", "IV3-G600MA"} |->
        IF c = "IV3-G500CA"
        THEN [ min_fov_x |-> Q(22), max_fov_x |-> Q(1184),
               min_fov_y |-> Q(16), max_fov_y |-> Q(888),
               min_dist |-> Q(50), max_dist |-> Q(3000) ]
        ELSE [ min_fov_x |-> Q(51), max_fov_x |-> Q(2730),
               min_fov_y |-> Q(38), max_fov_y |-> Q(2044),
               min_dist |-> Q(50), max_dist |-> Q(3000) ] ]

(***************************************************************************)
(* State                                                                   *)
(***************************************************************************)
VARIABLES
    \* a call of the calculation functions: the ranges, the value, the results
    inMin, inMax, outMin, outMax, inValue, result, inverse,
    fovExtentMm, pixelCount, metrics,
    \* main.py: the widgets, st.session_state and what the last run computed
    display_camera, current_distance, target_fov_enable, primary_fov_choice,
    session_state, fov_x_at_dist, fov_y_at_dist, res_h, res_v,
    estimated_distance_h, estimated_distance_y,
    \* i.py: the widgets and what the last run computed
    i_display_camera, i_calculate_fov, i_calculate_distance,
    i_target_fov, i_distance_input, i_fov_width,
    i_distance, i_fov_h, i_fov_xy, i_resolution

fnVars == <<inMin, inMax, outMin, outMax, inValue, result, inverse,
            fovExtentMm, pixelCount, metrics>>

mainVars == <<display_camera, current_distance, target_fov_enable,
              primary_fov_choice, session_state, fov_x_at_dist, fov_y_at_dist,
              res_h, res_v, estimated_distance_h, estimated_distance_y>>

iVars == <<i_display_camera, i_calculate_fov, i_calculate_distance,
           i_target_fov, i_distance_input, i_fov_width,
           i_distance, i_fov_h, i_fov_xy, i_resolution>>

vars == <<fnVars, mainVars, iVars>>

\* the other programs are not running
MainIdle ==
    /\ display_camera = "IV3-G500CA"
    /\ current_distance = None
    /\ target_fov_enable = FALSE
    /\ primary_fov_choice = "Horizontal FOV"
    /\ session_state = <<>>
    /\ fov_x_at_dist = None
    /\ fov_y_at_dist = None
    /\ res_h = <<None, None>>
    /\ res_v = <<None, None>>
    /\ estimated_distance_h = None
    /\ estimated_distance_y = None

IIdle ==
    /\ i_display_camera = "IV3-G500CA"
    /\ i_calculate_fov = FALSE
    /\ i_calculate_distance = FALSE
    /\ i_target_fov = None
    /\ i_distance_input = None
    /\ i_fov_width = None
    /\ i_distance = None
    /\ i_fov_h = None
    /\ i_fov_xy = <<None, None>>
    /\ i_resolution = <<None, None>>

FnIdle ==
    /\ inMin = None
    /\ inMax = None
    /\ outMin = None
    /\ outMax = None
    /\ inValue = None
    /\ result = None
    /\ inverse = None
    /\ fovExtentMm = None
    /\ pixelCount = None
    /\ metrics = <<None, None>>

(***************************************************************************)
(* The calculation functions on their own: the ranges are fixed by Init,   *)
(* every step is one call.                                                 *)
(***************************************************************************)
MaxVal == 2

\* small numbers, negative, zero and positive
Vals == {Q(i) : i \in (-1)..MaxVal}

\* the ranges of the catalog, distance to FOV and FOV to distance
CatalogRanges ==
    { <<Q(50), Q(3000), Q(22), Q(1184)>>, <<Q(22), Q(1184), Q(50), Q(3000)>>,
      <<Q(50), Q(3000), Q(16), Q(888)>>,  <<Q(16), Q(888), Q(50), Q(3000)>>,
      <<Q(50), Q(3000), Q(51), Q(2730)>>, <<Q(51), Q(2730), Q(50), Q(3000)>>,
      <<Q(50), Q(3000), Q(38), Q(2044)>>, <<Q(38), Q(2044), Q(50), Q(3000)>> }

Ranges == (Vals \X Vals \X Vals \X Vals) \cup CatalogRanges \cup {<<Q(5), Q(5), Q(10), Q(20)>>}

\* values passed to linear_interpolation
InputValues == Vals \cup {Q(i) : i \in {22, 50, 100, 640, 1184, 3000, 9999}}

\* FOV extents and pixel counts passed to calculate_resolution_metrics
FovValues == Vals \cup {Q(100), Norm(6139, 100)}

PixelValues == {Q(i) : i \in 0..MaxVal} \cup {Q(960), Q(1280)}

FnInit ==
    /\ \E r \in Ranges :
          /\ inMin = r[1]
          /\ inMax = r[2]
          /\ outMin = r[3]
          /\ outMax = r[4]
    /\ inValue = None
    /\ result = None
    /\ inverse = None
    /\ fovExtentMm = None
    /\ pixelCount = None
    /\ metrics = <<None, None>>
    /\ MainIdle
    /\ IIdle

\* a call linear_interpolation(v, inMin, inMax, outMin, outMax)
Interpolate(v) ==
    /\ inValue' = v
    /\ result' = linear_interpolation(v, inMin, inMax, outMin, outMax)
    /\ inverse' = None
    /\ fovExtentMm' = None
    /\ pixelCount' = None
    /\ metrics' = <<None, None>>
    /\ UNCHANGED <<inMin, inMax, outMin, outMax, mainVars, iVars>>

\* the inverse mapping of the last result: the same function with the input
\* and output ranges swapped (main.py:238-249 against main.py:143-150)
Inverse ==
    /\ IsNumber(result)
    /\ inverse = None
    /\ inverse' = linear_interpolation(result, outMin, outMax, inMin, inMax)
    /\ UNCHANGED <<inMin, inMax, outMin, outMax, inValue, result,
                   fovExtentMm, pixelCount, metrics, mainVars, iVars>>

\* a call calculate_resolution_metrics(f, p)
ResolutionMetrics(f, p) ==
    /\ fovExtentMm' = f
    /\ pixelCount' = p
    /\ metrics' = calculate_resolution_metrics(f, p)
    /\ inValue' = None
    /\ result' = None
    /\ inverse' = None
    /\ UNCHANGED <<inMin, inMax, outMin, outMax, mainVars, iVars>>

FnNext ==
    \/ \E v \in InputValues : Interpolate(v)
    \/ Inverse
    \/ \E f \in FovValues, p \in PixelValues : ResolutionMetrics(f, p)

SpecFn == FnInit /\ [][FnNext]_vars

(***************************************************************************)
(* src/main.py as a Streamlit session: every user interaction sets the     *)
(* widget's value, runs its on_change callback and then reruns the script  *)
(* from the top.  st.session_state is the dictionary the script reads and  *)
(* writes; entries live until the session ends.  A number_input offers the *)
(* values between its min_value and max_value.                             *)
(***************************************************************************)
\* values typed into the number_input widgets
DistanceInputs == {Q(i) : i \in {50, 100, 250, 1525, 3000}}

FovXInputs == {Q(i) : i \in {22, 51, 100, 1184, 2000, 2730}}

FovYInputs == {Q(i) : i \in {16, 38, 100, 888, 1500, 2044}}

InRange(v, lo, hi) == Leq(lo, v) /\ Leq(v, hi)

\* main.py:113-249, one run of the script with the widget values given
RunScript(name, distance, enable, state) ==
    LET camera == cameras[name]
        state1 == IF enable THEN init_session_state(state, camera) ELSE state
    IN  /\ display_camera' = name
        /\ current_distance' = distance
        /\ target_fov_enable' = enable
        /\ fov_x_at_dist' = compute_fov_x_at_dist(camera, distance)
        /\ fov_y_at_dist' = compute_fov_y_at_dist(camera, distance)
        /\ res_h' = calculate_resolution_metrics(
                        compute_fov_x_at_dist(camera, distance), camera.resolution_h)
        /\ res_v' = calculate_resolution_metrics(
                        compute_fov_y_at_dist(camera, distance), camera.resolution_v)
        /\ session_state' = state1
        /\ estimated_distance_h' =
               IF enable THEN compute_estimated_distance_h(state1, camera) ELSE None
        /\ estimated_distance_y' =
               IF enable THEN compute_estimated_distance_y(state1, camera) ELSE None

\* the first run: the first camera, the distance 100, the checkbox off
Init ==
    /\ display_camera = "IV3-G500CA"
    /\ current_distance = Q(100)
    /\ target_fov_enable = FALSE
    /\ primary_fov_choice = "Horizontal FOV"
    /\ session_state = <<>>
    /\ fov_x_at_dist = compute_fov_x_at_dist(cameras["IV3-G500CA"], Q(100))
    /\ fov_y_at_dist = compute_fov_y_at_dist(cameras["IV3-G500CA"], Q(100))
    /\ res_h = calculate_resolution_metrics(
                   compute_fov_x_at_dist(cameras["IV3-G500CA"], Q(100)), Q(1280))
    /\ res_v = calculate_resolution_metrics(
                   compute_fov_y_at_dist(cameras["IV3-G500CA"], Q(100)), Q(960))
    /\ estimated_distance_h = None
    /\ estimated_distance_y = None
    /\ FnIdle
    /\ IIdle

\* main.py:114, another camera is selected
SelectCamera(name) ==
    /\ name # display_camera
    /\ RunScript(name, current_distance, target_fov_enable, session_state)
    /\ UNCHANGED <<primary_fov_choice, fnVars, iVars>>

\* main.py:130-137, a distance is entered
EnterDistance(d) ==
    /\ d # current_distance
    /\ InRange(d, cameras[display_camera].min_dist, cameras[display_camera].max_dist)
    /\ RunScript(display_camera, d, target_fov_enable, session_state)
    /\ UNCHANGED <<primary_fov_choice, fnVars, iVars>>

\* main.py:173, the checkbox is ticked or cleared
ToggleTargetFov ==
    /\ RunScript(display_camera, current_distance, ~target_fov_enable, session_state)
    /\ UNCHANGED <<primary_fov_choice, fnVars, iVars>>

\* main.py:203-207, the radio button
ChoosePrimary(choice) ==
    /\ target_fov_enable
    /\ choice # primary_fov_choice
    /\ primary_fov_choice' = choice
    /\ RunScript(display_camera, current_distance, target_fov_enable, session_state)
    /\ UNCHANGED <<fnVars, iVars>>

\* main.py:210-219, the horizontal target FOV is edited: the widget stores
\* the value under its key, on_change runs, the script reruns
EditHorizontal(h) ==
    /\ target_fov_enable
    /\ primary_fov_choice = "Horizontal FOV"
    /\ InRange(h, cameras[display_camera].min_fov_x, cameras[display_camera].max_fov_x)
    /\ h # session_state["target_fov_h_input"]
    /\ RunScript(display_camera, current_distance, target_fov_enable,
                 update_vertical_from_horizontal(
                     SetKey(session_state, "target_fov_h_input", h),
                     cameras[display_camera]))
    /\ UNCHANGED <<primary_fov_choice, fnVars, iVars>>

\* main.py:223-232, the vertical target FOV is edited
EditVertical(y) ==
    /\ target_fov_enable
    /\ primary_fov_choice = "Vertical FOV"
    /\ InRange(y, cameras[display_camera].min_fov_y, cameras[display_camera].max_fov_y)
    /\ y # session_state["target_fov_y_input"]
    /\ RunScript(display_camera, current_distance, target_fov_enable,
                 update_horizontal_from_vertical(
                     SetKey(session_state, "target_fov_y_input", y),
                     cameras[display_camera]))
    /\ UNCHANGED <<primary_fov_choice, fnVars, iVars>>

Next ==
    \/ \E name \in CameraModels : SelectCamera(name)
    \/ \E d \in DistanceInputs : EnterDistance(d)
    \/ ToggleTargetFov
    \/ \E choice \in {"Horizontal FOV", "Vertical FOV"} : ChoosePrimary(choice)
    \/ \E h \in FovXInputs : EditHorizontal(h)
    \/ \E y \in FovYInputs : EditVertical(y)

Spec == Init /\ [][Next]_vars

(***************************************************************************)
(* src/i.py as a Streamlit session.  Its number_input widgets have no key: *)
(* a widget that is not drawn, or is drawn with other bounds, starts again *)
(* from its default value.                                                 *)
(***************************************************************************)
\* i.py:6, the default of image_width
DefaultImageWidth == 1280

\* i.py:84 and i.py:97, value=100
DefaultFov == 100

\* i.py:89, value=250
DefaultDistance == 250

\* i.py:72-107, one run of the script with the widget values given
IRunScript(name, calc_distance, target, calc_fov, distance, width) ==
    LET camera == i_cameras[name]
    IN  /\ i_display_camera' = name
        /\ i_calculate_distance' = calc_distance
        /\ i_calculate_fov' = calc_fov
        /\ i_target_fov' = IF calc_distance THEN target ELSE None
        /\ i_distance_input' = IF calc_fov THEN distance ELSE None
        /\ i_fov_width' = width
        /\ i_distance' =
               IF calc_distance
               THEN calculate_mounting_distance(target, camera.min_fov_x, camera.max_fov_x,
                                                camera.min_dist, camera.max_dist)
               ELSE None
        /\ i_fov_h' =
               IF calc_fov
               THEN calculate_fov_from_distance(distance, camera.min_fov_x, camera.max_fov_x,
                                                camera.min_dist, camera.max_dist)
               ELSE None
        /\ i_fov_xy' =
               IF calc_fov
               THEN calculate_fov_x_y(distance, camera.min_fov_x, camera.max_fov_x,
                                      camera.min_fov_y, camera.max_fov_y,
                                      camera.min_dist, camera.max_dist)
               ELSE <<None, None>>
        /\ i_resolution' = calculate_resolution(width, Q(DefaultImageWidth))

\* the first run: the first camera, both checkboxes off, the FOV width 100
IInit ==
    /\ i_display_camera = "IV3-G500CA"
    /\ i_calculate_fov = FALSE
    /\ i_calculate_distance = FALSE
    /\ i_target_fov = None
    /\ i_distance_input = None
    /\ i_fov_width = Q(DefaultFov)
    /\ i_distance = None
    /\ i_fov_h = None
    /\ i_fov_xy = <<None, None>>
    /\ i_resolution = calculate_resolution(Q(DefaultFov), Q(DefaultImageWidth))
    /\ FnIdle
    /\ MainIdle

\* i.py:72, another camera: the widgets bounded by its FOV are new widgets
ISelectCamera(name) ==
    /\ name # i_display_camera
    /\ IRunScript(name, i_calculate_distance, Q(DefaultFov),
                  i_calculate_fov, i_distance_input, Q(DefaultFov))
    /\ UNCHANGED <<fnVars, mainVars>>

\* i.py:80
IToggleCalculateDistance ==
    /\ IRunScript(i_display_camera, ~i_calculate_distance, Q(DefaultFov),
                  i_calculate_fov, i_distance_input, i_fov_width)
    /\ UNCHANGED <<fnVars, mainVars>>

\* i.py:79
IToggleCalculateFov ==
    /\ IRunScript(i_display_camera, i_calculate_distance, i_target_fov,
                  ~i_calculate_fov, Q(DefaultDistance), i_fov_width)
    /\ UNCHANGED <<fnVars, mainVars>>

\* i.py:84
IEnterTargetFov(f) ==
    /\ i_calculate_distance
    /\ f # i_target_fov
    /\ InRange(f, i_cameras[i_display_camera].min_fov_x, i_cameras[i_display_camera].max_fov_x)
    /\ IRunScript(i_display_camera, i_calculate_distance, f,
                  i_calculate_fov, i_distance_input, i_fov_width)
    /\ UNCHANGED <<fnVars, mainVars>>

\* i.py:89
IEnterDistance(d) ==
    /\ i_calculate_fov
    /\ d # i_distance_input
    /\ InRange(d, i_cameras[i_display_camera].min_dist, i_cameras[i_display_camera].max_dist)
    /\ IRunScript(i_display_camera, i_calculate_distance, i_target_fov,
                  i_calculate_fov, d, i_fov_width)
    /\ UNCHANGED <<fnVars, mainVars>>

\* i.py:97
IEnterFovWidth(w) ==
    /\ w # i_fov_width
    /\ InRange(w, i_cameras[i_display_camera].min_fov_x, i_cameras[i_display_camera].max_fov_x)
    /\ IRunScript(i_display_camera, i_calculate_distance, i_target_fov,
                  i_calculate_fov, i_distance_input, w)
    /\ UNCHANGED <<fnVars, mainVars>>

INext ==
    \/ \E name \in DOMAIN i_cameras : ISelectCamera(name)
    \/ IToggleCalculateDistance
    \/ IToggleCalculateFov
    \/ \E f \in FovXInputs : IEnterTargetFov(f)
    \/ \E d \in DistanceInputs : IEnterDistance(d)
    \/ \E w \in FovXInputs : IEnterFovWidth(w)

SpecI == IInit /\ [][INext]_vars

(***************************************************************************)
(* Properties of linear_interpolation and calculate_resolution_metrics,    *)
(* under SpecFn                                                            *)
(***************************************************************************)
\* linear_interpolation has been called with the value inValue
Called == inValue # None

Clamped(v, lo, hi) == IF Less(v, lo) THEN lo ELSE IF Less(hi, v) THEN hi ELSE v

\* C2: input clamping. With inMin < inMax the result is
\* outMin + (c - inMin) * (outMax - outMin) / (inMax - inMin), c the value
\* clamped to [inMin, inMax]; a value above inMax gives the result of inMax,
\* a value below inMin the result of inMin.
InputClamping ==
    (Called /\ Less(inMin, inMax)) =>
        /\ result = Add(outMin,
                        Div(Mul(Sub(Clamped(inValue, inMin, inMax), inMin),
                                Sub(outMax, outMin)),
                            Sub(inMax, inMin)))
        /\ (Less(inMax, inValue) =>
                result = linear_interpolation(inMax, inMin, inMax, outMin, outMax))
        /\ (Less(inValue, inMin) =>
                result = linear_interpolation(inMin, inMin, inMax, outMin, outMax))

\* C2: linear_interpolation(9999, 50, 3000, 22, 1184) has returned 1184
ClampingScenario ==
    /\ inValue = Q(9999)
    /\ <<inMin, inMax, outMin, outMax>> = <<Q(50), Q(3000), Q(22), Q(1184)>>
    /\ result = Q(1184)

\* C3: degenerate input range. With inMax = inMin the result is outMin for
\* every value, and no division by zero is reached.
DegenerateRange ==
    (Called /\ inMax = inMin) => (result = outMin /\ ~Raised(result))

\* C3: linear_interpolation(v, 5, 5, 10, 20) has returned 10
DegenerateScenario ==
    /\ Called
    /\ <<inMin, inMax, outMin, outMax>> = <<Q(5), Q(5), Q(10), Q(20)>>
    /\ result = Q(10)

\* v lies strictly between a and b, whichever of the two is the smaller
StrictlyInside(v, a, b) ==
    \/ Less(a, v) /\ Less(v, b)
    \/ Less(b, v) /\ Less(v, a)

\* C4 as stated: the round trip returns the value for every value strictly
\* inside the input range, with no ordering assumed on either range.
RoundTripAnyOrder ==
    (Called /\ inverse # None /\ StrictlyInside(inValue, inMin, inMax)) =>
        inverse = inValue

\* C4 amended: the round trip returns the value for every value strictly
\* inside the input range when inMin < inMax and outMin < outMax.
RoundTripOrdered ==
    (Called /\ inverse # None /\ Less(inMin, inValue) /\ Less(inValue, inMax)
        /\ Less(outMin, outMax)) =>
        inverse = inValue

\* C4: the distance 100 mapped to a fractional FOV and back to 100
RoundTripScenario ==
    /\ inValue = Q(100)
    /\ <<inMin, inMax, outMin, outMax>> = <<Q(50), Q(3000), Q(22), Q(1184)>>
    /\ result[2] > 1
    /\ inverse = Q(100)

\* C5: monotonicity. With inMin < inMax and outMin < outMax, a call with a
\* value at least as large as the previous one returns a result at least as
\* large; the result is outMin for every value at or below inMin and outMax
\* for every value at or above inMax.
Monotonicity ==
    /\ []((Called /\ Less(inMin, inMax) /\ Less(outMin, outMax)) =>
            /\ (Leq(inValue, inMin) => result = outMin)
            /\ (Leq(inMax, inValue) => result = outMax)
            /\ Leq(outMin, result) /\ Leq(result, outMax))
    /\ [][(Called /\ inValue' # None /\ Less(inMin, inMax) /\ Less(outMin, outMax)
            /\ Leq(inValue, inValue')) => Leq(result, result')]_vars

\* C5: a value inside an increasing range, mapped strictly inside the output
MonotoneScenario ==
    /\ Less(inMin, inValue) /\ Less(inValue, inMax)
    /\ Less(outMin, result) /\ Less(result, outMax)
    /\ inValue = Q(640)

\* calculate_resolution_metrics has been called
MetricsCalled == pixelCount # None

\* C6: resolution sentinels. For every FOV extent and every pixel count >= 0
\* the call raises nothing; it returns (0, 0) for a pixel count of 0 and for
\* a FOV extent of 0, and otherwise fov / pixels and the reciprocal of that.
ResolutionSentinels ==
    MetricsCalled =>
        /\ ~Raised(metrics[1]) /\ ~Raised(metrics[2])
        /\ (pixelCount = Q(0) => metrics = <<Q(0), Q(0)>>)
        /\ ((pixelCount # Q(0) /\ fovExtentMm = Q(0)) => metrics = <<Q(0), Q(0)>>)
        /\ ((pixelCount # Q(0) /\ fovExtentMm # Q(0)) =>
                /\ metrics[1] = Div(fovExtentMm, pixelCount)
                /\ metrics[2] = Div(Q(1), Div(fovExtentMm, pixelCount)))

\* C6: calculate_resolution_metrics(100, 0) has returned (0, 0)
SentinelScenario ==
    /\ fovExtentMm = Q(100)
    /\ pixelCount = Q(0)
    /\ metrics = <<Q(0), Q(0)>>

(***************************************************************************)
(* Properties of the main.py session, under Spec                           *)
(***************************************************************************)
\* C7 as stated: for the camera with FOV 22..1184 over the distances
\* 50..3000, the FOV at the distance 100 is displayed as 61.39.
FovAt100AsStated ==
    (display_camera = "IV3-G500CA" /\ current_distance = Q(100)) =>
        format_f(fov_x_at_dist, 2) = 6139

\* C7 amended: that FOV is 22 + (100 - 50) / (3000 - 50) * 1162, which is
\* displayed as 41.69.
FovAt100 ==
    (display_camera = "IV3-G500CA" /\ current_distance = Q(100)) =>
        /\ fov_x_at_dist = Add(Q(22), Mul(Div(Q(100 - 50), Q(3000 - 50)), Q(1162)))
        /\ format_f(fov_x_at_dist, 2) = 4169

\* C7: the script has run for that camera at the distance 100
FovAt100Scenario ==
    /\ display_camera = "IV3-G500CA"
    /\ current_distance = Q(100)
    /\ IsNumber(fov_x_at_dist)
    /\ fov_x_at_dist[2] > 1

\* the camera the session shows
SelectedCamera == cameras[display_camera]

\* the sensor's pixel aspect ratio, resolutionH / resolutionV
AspectRatio == Div(SelectedCamera.resolution_h, SelectedCamera.resolution_v)

\* C8: one-directional aspect-ratio coupling. An edit of the horizontal
\* target FOV to h leaves h in the horizontal field and puts
\* clamp(h / aspectRatio, minFovY, maxFovY) in the vertical field; an edit of
\* the vertical target FOV to y leaves y in the vertical field and puts
\* clamp(y * aspectRatio, minFovX, maxFovX) in the horizontal field. The
\* derived field lies within its catalog bounds after the edit.
AspectCoupling ==
    [][ /\ \A h \in FovXInputs :
              EditHorizontal(h) =>
                /\ session_state'["target_fov_h_input"] = h
                /\ session_state'["target_fov_y_input"] =
                       Clamped(Div(h, AspectRatio),
                               SelectedCamera.min_fov_y, SelectedCamera.max_fov_y)
                /\ InRange(session_state'["target_fov_y_input"],
                           SelectedCamera.min_fov_y, SelectedCamera.max_fov_y)
        /\ \A y \in FovYInputs :
              EditVertical(y) =>
                /\ session_state'["target_fov_y_input"] = y
                /\ session_state'["target_fov_h_input"] =
                       Clamped(Mul(y, AspectRatio),
                               SelectedCamera.min_fov_x, SelectedCamera.max_fov_x)
                /\ InRange(session_state'["target_fov_h_input"],
                           SelectedCamera.min_fov_x, SelectedCamera.max_fov_x)
      ]_vars

\* C8: the horizontal field edited to 2730, the vertical field derived from
\* it (2047.5) and clamped to 2044
AspectCouplingScenario ==
    /\ target_fov_enable
    /\ display_camera = "IV3-G600MA"
    /\ primary_fov_choice = "Horizontal FOV"
    /\ session_state["target_fov_h_input"] = Q(2730)
    /\ session_state["target_fov_y_input"] = Q(2044)

\* C9: session-state bounds. In target-FOV mode the stored target FOVs lie
\* within the FOV bounds of the camera that is selected, also after the
\* camera has been changed.
SessionStateBounds ==
    target_fov_enable =>
        /\ InRange(session_state["target_fov_h_input"],
                   SelectedCamera.min_fov_x, SelectedCamera.max_fov_x)
        /\ InRange(session_state["target_fov_y_input"],
                   SelectedCamera.min_fov_y, SelectedCamera.max_fov_y)

(***************************************************************************)
(* The two variants compared, under SpecI                                  *)
(***************************************************************************)
\* the camera the i.py session shows, with main.py's catalog entry for it
ISelectedCamera == cameras[i_display_camera]

\* C10: equivalence of the variants on in-range inputs. For the selected
\* camera and the distance entered, i.py's calculate_fov_from_distance and
\* both components of calculate_fov_x_y equal main.py's linear_interpolation
\* from the distance range to the FOV range; for the target FOV entered,
\* i.py's calculate_mounting_distance equals main.py's linear_interpolation
\* from the FOV range to the distance range.
VariantEquivalence ==
    /\ i_calculate_fov =>
         /\ InRange(i_distance_input, ISelectedCamera.min_dist, ISelectedCamera.max_dist)
         /\ i_fov_h = linear_interpolation(i_distance_input,
                          ISelectedCamera.min_dist, ISelectedCamera.max_dist,
                          ISelectedCamera.min_fov_x, ISelectedCamera.max_fov_x)
         /\ i_fov_xy[1] = linear_interpolation(i_distance_input,
                          ISelectedCamera.min_dist, ISelectedCamera.max_dist,
                          ISelectedCamera.min_fov_x, ISelectedCamera.max_fov_x)
         /\ i_fov_xy[2] = linear_interpolation(i_distance_input,
                          ISelectedCamera.min_dist, ISelectedCamera.max_dist,
                          ISelectedCamera.min_fov_y, ISelectedCamera.max_fov_y)
    /\ i_calculate_distance =>
         /\ InRange(i_target_fov, ISelectedCamera.min_fov_x, ISelectedCamera.max_fov_x)
         /\ i_distance = linear_interpolation(i_target_fov,
                          ISelectedCamera.min_fov_x, ISelectedCamera.max_fov_x,
                          ISelectedCamera.min_dist, ISelectedCamera.max_dist)

\* C10: both calculations shown for the wide-view camera, with fractional
\* results
VariantScenario ==
    /\ i_display_camera = "IV3-G600MA"
    /\ i_calculate_fov
    /\ i_calculate_distance
    /\ i_distance_input = Q(250)
    /\ i_target_fov = Q(2000)
    /\ i_fov_h[2] > 1
    /\ i_distance[2] > 1

====
